---------------------------- MODULE Spec2Model ----------------------------
(***************************************************************************)
(* The EOD report dashboard (app.py, and its earlier variant app0.py).     *)
(*                                                                         *)
(* A report text is a sequence of characters (one-character strings).  The *)
(* regular expressions of the scripts are modelled by what Python's re     *)
(* does with them: leftmost match, greedy and lazy quantifiers tried in    *)
(* their priority order with backtracking, findall scanning on from the    *)
(* end of each match.  Amounts are decimals held as integers in units of   *)
(* 10^-FracDigits.                                                         *)
(***************************************************************************)
EXTENDS Integers, Sequences, FiniteSets

(***************************************************************************)
(* Bounds of the model.                                                    *)
(***************************************************************************)
\* decimal places kept of an amount
FracDigits == 2
\* pages of an uploaded PDF
MaxPages == 2
\* entries of a response's issues list
MaxIssues == 1
\* characters of the longest report
MaxTextLen == 6002
\* lines of the department tables, from MaxDeptRows - 1 on
MaxRows == 22
\* one larger department table
ManyRows == 50

(***************************************************************************)
(* Program constants.                                                      *)
(***************************************************************************)
\* text[:6000]
MaxTextChars == 6000
\* .head(20)
MaxDeptRows == 20

RECURSIVE Pow10(_)
Pow10(n) == IF n = 0 THEN 1 ELSE 10 * Pow10(n - 1)
Scale == Pow10(FracDigits)

Min(a, b) == IF a <= b THEN a ELSE b

(***************************************************************************)
(* Character classes of the regular expressions.                           *)
(***************************************************************************)
Digit == {"0", "1", "2", "3", "4", "5", "6", "7", "8", "9"}
Upper == {"A", "B", "C", "D", "E", "F", "G", "H", "I", "J", "K", "L", "M",
          "N", "O", "P", "Q", "R", "S", "T", "U", "V", "W", "X", "Y", "Z"}
Lower == {"a", "b", "c", "d", "e", "f", "g", "h", "i", "j", "k", "l", "m",
          "n", "o", "p", "q", "r", "s", "t", "u", "v", "w", "x", "y", "z"}
\* \s
Space == {" ", "\n", "\t"}
\* [\d\.]
NumClass == Digit \cup {"."}
\* [A-Z0-9 \-&'\.]   (app.py)
NameClass == Upper \cup Digit \cup {" ", "-", "&", "'", "."}
\* [A-Z\-\&\s']      (app0.py)
NameClass0 == Upper \cup {"-", "&", "'"} \cup Space
\* \w
WordClass == Upper \cup Lower \cup Digit \cup {"_"}

\* The length of the longest run of characters of class C that starts at p.
RECURSIVE Run(_, _, _)
Run(t, p, C) ==
    IF p > Len(t) \/ t[p] \notin C THEN 0 ELSE 1 + Run(t, p + 1, C)

\* The literal lit stands in t at position i.
Lit(t, i, lit) ==
    /\ i + Len(lit) - 1 <= Len(t)
    /\ \A k \in 1..Len(lit) : t[i + k - 1] = lit[k]

\* \b before position i: exactly one of the characters around it is a \w.
WordBoundary(t, i) ==
    LET before == i > 1 /\ i - 1 <= Len(t) /\ t[i - 1] \in WordClass
        after  == i >= 1 /\ i <= Len(t) /\ t[i] \in WordClass
    IN  before # after

(***************************************************************************)
(* float(s) of a token of digits and dots: a ValueError unless the token   *)
(* has at least one digit and at most one dot.                             *)
(***************************************************************************)
DigitVal(c) ==
    CASE c = "0" -> 0 [] c = "1" -> 1 [] c = "2" -> 2 [] c = "3" -> 3
      [] c = "4" -> 4 [] c = "5" -> 5 [] c = "6" -> 6 [] c = "7" -> 7
      [] c = "8" -> 8 [] c = "9" -> 9

RECURSIVE IntVal(_)
IntVal(ds) ==
    IF ds = <<>> THEN 0
    ELSE 10 * IntVal(SubSeq(ds, 1, Len(ds) - 1)) + DigitVal(ds[Len(ds)])

\* The fraction digits fs as a count of 10^-FracDigits.
FracVal(fs) ==
    IntVal([k \in 1..FracDigits |-> IF k <= Len(fs) THEN fs[k] ELSE "0"])

Raise == [raised |-> TRUE, val |-> 0]
Value(v) == [raised |-> FALSE, val |-> v]

float(tok) ==
    LET dots == {k \in 1..Len(tok) : tok[k] = "."}
        digits == {k \in 1..Len(tok) : tok[k] \in Digit}
    IN  IF Cardinality(dots) > 1 \/ digits = {} THEN Raise
        ELSE IF dots = {} THEN Value(IntVal(tok) * Scale)
        ELSE LET d == CHOOSE k \in dots : TRUE
             IN  Value(IntVal(SubSeq(tok, 1, d - 1)) * Scale
                       + FracVal(SubSeq(tok, d + 1, Len(tok))))

\* int(s) of a token of digits.
int(tok) == IntVal(tok)


(***************************************************************************)
(* Patterns.  A pattern is a sequence of elements:                         *)
(*   wb            \b                                                      *)
(*   lit(chars)    the literal characters                                  *)
(*   rep(C, min, lazy)   min or more characters of class C: C+ and C* are  *)
(*                 greedy, C+? is lazy                                     *)
(*   opt(skip)     the start of an optional group (?: ... )? whose         *)
(*                 elements follow; skip is the index of the first element *)
(*                 after the group                                         *)
(***************************************************************************)
wb == [kind |-> "wb", chars |-> <<>>, class |-> {}, min |-> 0,
       lazy |-> FALSE, skip |-> 0]
lit(chars) == [wb EXCEPT !.kind = "lit", !.chars = chars]
rep(C, min, lazy) ==
    [wb EXCEPT !.kind = "rep", !.class = C, !.min = min, !.lazy = lazy]
opt(skip) == [wb EXCEPT !.kind = "opt", !.skip = skip]

\* The match of the elements k.. of pat at position p of t, as re finds it.
\* RepEnds: for a repetition, each count it may take with the position
\* after the match of the rest of the pattern (0: the rest does not match).
\* A greedy repetition takes the largest count after which the rest
\* matches, a lazy one the smallest (RepCount, -1: none).  An optional group
\* is tried first and skipped only when the pattern does not match with it.
\* MatchEnd is the position after the match, 0 when there is none.
RECURSIVE MatchEnd(_, _, _, _)
RepEnds(pat, t, p, k) ==
    {<<n, MatchEnd(pat, t, p + n, k + 1)>> :
        n \in pat[k].min..Run(t, p, pat[k].class)}

RepTaken(pat, k, ends) ==
    LET S == {e \in ends : e[2] # 0}
    IN  IF S = {} THEN <<-1, 0>>
        ELSE IF pat[k].lazy THEN CHOOSE e \in S : \A d \in S : e[1] <= d[1]
        ELSE CHOOSE e \in S : \A d \in S : d[1] <= e[1]

RepCount(pat, t, p, k) == RepTaken(pat, k, RepEnds(pat, t, p, k))[1]

MatchEnd(pat, t, p, k) ==
    IF k > Len(pat) THEN p
    ELSE CASE pat[k].kind = "wb" ->
                IF WordBoundary(t, p) THEN MatchEnd(pat, t, p, k + 1) ELSE 0
           [] pat[k].kind = "lit" ->
                IF Lit(t, p, pat[k].chars)
                THEN MatchEnd(pat, t, p + Len(pat[k].chars), k + 1)
                ELSE 0
           [] pat[k].kind = "opt" ->
                LET with == MatchEnd(pat, t, p, k + 1)
                IN  IF with # 0 THEN with
                    ELSE MatchEnd(pat, t, p, pat[k].skip)
           [] pat[k].kind = "rep" ->
                RepTaken(pat, k, RepEnds(pat, t, p, k))[2]

\* Where each element of pat starts in the match at p (MatchEnd # 0), and,
\* last, where the match ends; 0 for the elements of a skipped group.
RECURSIVE MatchPath(_, _, _, _)
MatchPath(pat, t, p, k) ==
    IF k > Len(pat) THEN <<p>>
    ELSE CASE pat[k].kind = "wb" -> <<p>> \o MatchPath(pat, t, p, k + 1)
           [] pat[k].kind = "lit" ->
                <<p>> \o MatchPath(pat, t, p + Len(pat[k].chars), k + 1)
           [] pat[k].kind = "opt" ->
                IF MatchEnd(pat, t, p, k + 1) # 0
                THEN <<p>> \o MatchPath(pat, t, p, k + 1)
                ELSE <<p>> \o [j \in 1..(pat[k].skip - k - 1) |-> 0]
                           \o MatchPath(pat, t, p, pat[k].skip)
           [] pat[k].kind = "rep" ->
                <<p>> \o MatchPath(pat, t, p + RepCount(pat, t, p, k), k + 1)

\* The group that is element k of pat, in the match at p.
Group(pat, t, p, k) ==
    LET path == MatchPath(pat, t, p, 1)
    IN  SubSeq(t, path[k], path[k + 1] - 1)

\* re.search from pos on: the start of the leftmost match, 0 for None.
\* The text is scanned a stretch of 64 positions at a time.
RECURSIVE re_search(_, _, _)
re_search(pat, t, pos) ==
    LET S == {i \in pos..Min(pos + 63, Len(t)) : MatchEnd(pat, t, i, 1) # 0}
    IN  IF S # {} THEN CHOOSE i \in S : \A j \in S : i <= j
        ELSE IF pos + 63 >= Len(t) THEN 0
        ELSE re_search(pat, t, pos + 64)

(***************************************************************************)
(* parse_basic_metrics: the scalar fields.                                 *)
(***************************************************************************)
Chars_Merchandise_Sales ==
    <<"M", "e", "r", "c", "h", "a", "n", "d", "i", "s", "e", " ",
      "S", "a", "l", "e", "s">>
Chars_Tax == <<"T", "a", "x">>
Chars_Total == <<"T", "o", "t", "a", "l">>
Chars_Grand == <<"G", "r", "a", "n", "d">>
Chars_Tax_A == Chars_Tax \o <<" ", "A">>
Chars_Tax_B == Chars_Tax \o <<" ", "B">>
Chars_Tax_C == Chars_Tax \o <<" ", "C">>
Chars_Tax_Total == Chars_Tax \o <<" ">> \o Chars_Total

\* <label>\s+([\d\.]+)
LabelPattern(label) ==
    <<lit(label), rep(Space, 1, FALSE), rep(NumClass, 1, FALSE)>>

pat_subtotal  == LabelPattern(Chars_Merchandise_Sales)
pat_tax_a     == LabelPattern(Chars_Tax_A)
pat_tax_b     == LabelPattern(Chars_Tax_B)
pat_tax_c     == LabelPattern(Chars_Tax_C)
pat_tax_total == LabelPattern(Chars_Tax_Total)
\* \bTotal\s+([\d\.]+)
pat_grand     == <<wb>> \o LabelPattern(Chars_Total)
\* app0.py: Total\s+([\d\.]+)
pat_grand0    == LabelPattern(Chars_Total)

\* float(m.group(1)) if m else float(default): the group is the pattern's
\* last element.
grab(pat, text) ==
    LET i == re_search(pat, text, 1)
    IN  IF i # 0 THEN float(Group(pat, text, i, Len(pat)))
        ELSE float(<<"0">>)

(***************************************************************************)
(* parse_basic_metrics: the payment methods.                               *)
(***************************************************************************)
Methods == <<"Cash", "AmEx", "Visa", "Master", "Other", "Discover">>
MethodSet == {Methods[k] : k \in 1..Len(Methods)}

MethodChars(name) ==
    CASE name = "Cash"     -> <<"C", "a", "s", "h">>
      [] name = "AmEx"     -> <<"A", "m", "E", "x">>
      [] name = "Visa"     -> <<"V", "i", "s", "a">>
      [] name = "Master"   -> <<"M", "a", "s", "t", "e", "r">>
      [] name = "Other"    -> <<"O", "t", "h", "e", "r">>
      [] name = "Discover" -> <<"D", "i", "s", "c", "o", "v", "e", "r">>

\* \b(Cash|AmEx|Visa|Master|Other|Discover):\s*([\d\.]+) with the k-th
\* alternative of its first group; app0.py's pattern has no \b.
pay_pattern(k) ==
    <<wb, lit(MethodChars(Methods[k])), lit(<<":">>), rep(Space, 0, FALSE),
      rep(NumClass, 1, FALSE)>>

pay_pattern0(k) == Tail(pay_pattern(k))

PayPattern(variant, k) ==
    IF variant = "app" THEN pay_pattern(k) ELSE pay_pattern0(k)

\* The alternative the match at i takes: the first that matches, 0: none.
PayAlt(variant, t, i) ==
    LET S == {k \in 1..Len(Methods) :
                 MatchEnd(PayPattern(variant, k), t, i, 1) # 0}
    IN  IF S = {} THEN 0 ELSE CHOOSE k \in S : \A j \in S : k <= j

\* re.findall of the payments pattern from pos on: (method, amount) pairs.
RECURSIVE pay_search(_, _, _)
pay_search(variant, t, pos) ==
    LET S == {i \in pos..Min(pos + 63, Len(t)) : PayAlt(variant, t, i) # 0}
    IN  IF S # {} THEN CHOOSE i \in S : \A j \in S : i <= j
        ELSE IF pos + 63 >= Len(t) THEN 0
        ELSE pay_search(variant, t, pos + 64)

RECURSIVE pay_findall(_, _, _)
pay_findall(variant, t, pos) ==
    LET i == pay_search(variant, t, pos)
    IN  IF i = 0 THEN <<>>
        ELSE LET pat == PayPattern(variant, PayAlt(variant, t, i))
             IN  <<[method |-> Methods[PayAlt(variant, t, i)],
                    amount |-> Group(pat, t, i, Len(pat))]>>
                 \o pay_findall(variant, t, MatchEnd(pat, t, i, 1))

\* dict(pairs).get(k): the amount of the last pair whose method is k.
dict_get(pairs, k) ==
    LET S == {n \in 1..Len(pairs) : pairs[n].method = k}
    IN  IF S = {} THEN [has |-> FALSE, amount |-> <<>>]
        ELSE [has |-> TRUE,
              amount |-> pairs[CHOOSE n \in S : \A j \in S : j <= n].amount]

\* pays[k] = float(pays.get(k, 0))
pays_entry(pairs, k) ==
    LET e == dict_get(pairs, k)
    IN  IF e.has THEN float(e.amount) ELSE Value(0)

(***************************************************************************)
(* The department table.                                                   *)
(***************************************************************************)
\* ([A-Z0-9 \-&'\.]+?)\s+(\d+)\s+([\d\.]+)\s+(?:[\d\.]+\s+)?[\d\.]+
dept_pattern ==
    <<rep(NameClass, 1, TRUE), rep(Space, 1, FALSE), rep(Digit, 1, FALSE),
      rep(Space, 1, FALSE), rep(NumClass, 1, FALSE), rep(Space, 1, FALSE),
      opt(10), rep(NumClass, 1, FALSE), rep(Space, 1, FALSE),
      rep(NumClass, 1, FALSE)>>

\* app0.py: ([A-Z\-\&\s']+)\s+(\d+)\s+([\d\.]+)
dept_pattern0 ==
    <<rep(NameClass0, 1, FALSE), rep(Space, 1, FALSE), rep(Digit, 1, FALSE),
      rep(Space, 1, FALSE), rep(NumClass, 1, FALSE)>>

\* re.findall of a department pattern from pos on: the three groups of
\* each match, which are the elements 1, 3 and 5 of both patterns.
RECURSIVE dept_findall(_, _, _)
dept_findall(pat, t, pos) ==
    LET i == re_search(pat, t, pos)
    IN  IF i = 0 THEN <<>>
        ELSE LET path == MatchPath(pat, t, i, 1)
             IN  <<[Department |-> SubSeq(t, path[1], path[2] - 1),
                    Qty        |-> SubSeq(t, path[3], path[4] - 1),
                    Sales      |-> SubSeq(t, path[5], path[6] - 1)]>>
                 \o dept_findall(pat, t, path[Len(pat) + 1])


\* astype(int) of Qty and astype(float) of Sales, row by row.
dept_astype(rows) ==
    [n \in 1..Len(rows) |->
        [Department |-> rows[n].Department,
         Qty        |-> int(rows[n].Qty),
         Sales      |-> float(rows[n].Sales).val]]

dept_astype_raises(rows) ==
    \E n \in 1..Len(rows) : float(rows[n].Sales).raised

(***************************************************************************)
(* parse_basic_metrics(text): the metrics, or the ValueError of the first  *)
(* float() that fails.                                                     *)
(***************************************************************************)
NoMetrics ==
    [subtotal |-> 0, tax_a |-> 0, tax_b |-> 0, tax_c |-> 0, tax_total |-> 0,
     grand_total |-> 0, payments |-> [k \in MethodSet |-> 0],
     dept_df |-> <<>>]

Returned(m) == [raised |-> FALSE, m |-> m]
Raised == [raised |-> TRUE, m |-> NoMetrics]

parse_basic_metrics(text) ==
    LET subtotal  == grab(pat_subtotal, text)
        tax_a     == grab(pat_tax_a, text)
        tax_b     == grab(pat_tax_b, text)
        tax_c     == grab(pat_tax_c, text)
        tax_total == grab(pat_tax_total, text)
        grand     == grab(pat_grand, text)
        pairs     == pay_findall("app", text, 1)
        dept_rows == dept_findall(dept_pattern, text, 1)
    IN  IF \/ subtotal.raised \/ tax_a.raised \/ tax_b.raised
           \/ tax_c.raised \/ tax_total.raised \/ grand.raised
           \/ \E k \in MethodSet : pays_entry(pairs, k).raised
           \/ dept_astype_raises(dept_rows)
        THEN Raised
        ELSE Returned(
               [subtotal |-> subtotal.val, tax_a |-> tax_a.val,
                tax_b |-> tax_b.val, tax_c |-> tax_c.val,
                tax_total |-> tax_total.val, grand_total |-> grand.val,
                payments |-> [k \in MethodSet |-> pays_entry(pairs, k).val],
                dept_df |-> dept_astype(dept_rows)])

\* app0.py, lines 20-30: total_sales, tax and grand_total.
scalars0(text) ==
    LET total_sales == grab(pat_subtotal, text)
        tax         == grab(pat_tax_a, text)
        grand_total == grab(pat_grand0, text)
    IN  IF total_sales.raised \/ tax.raised \/ grand_total.raised
        THEN Raised
        ELSE Returned([NoMetrics EXCEPT !.subtotal = total_sales.val,
                                        !.tax_a = tax.val,
                                        !.grand_total = grand_total.val])

\* app0.py, lines 33-48: the payments chart's frame and the department
\* frame.
tables0(text) ==
    LET payments    == pay_findall("app0", text, 1)
        departments == dept_findall(dept_pattern0, text, 1)
    IN  IF \/ \E n \in 1..Len(payments) : float(payments[n].amount).raised
           \/ dept_astype_raises(departments)
        THEN Raised
        ELSE Returned([NoMetrics EXCEPT !.dept_df = dept_astype(departments)])

(***************************************************************************)
(* The uploaded PDF: a sequence of pages, each with the text pdfplumber    *)
(* extracts from it (none marks a page whose extract_text() is None).      *)
(***************************************************************************)
\* 'Merchandise Sales 200.00\nTax A 10.00\nTax Total 16.00\nTotal 216.00\nCash: 216.00\nGROCERY 10 150.00\nDELI 5 50.00'
Page_Report ==
    <<"M", "e", "r", "c", "h", "a", "n", "d", "i", "s", "e", " ", "S",
      "a", "l", "e", "s", " ", "2", "0", "0", ".", "0", "0", "\n", "T",
      "a", "x", " ", "A", " ", "1", "0", ".", "0", "0", "\n", "T", "a",
      "x", " ", "T", "o", "t", "a", "l", " ", "1", "6", ".", "0", "0",
      "\n", "T", "o", "t", "a", "l", " ", "2", "1", "6", ".", "0", "0",
      "\n", "C", "a", "s", "h", ":", " ", "2", "1", "6", ".", "0", "0",
      "\n", "G", "R", "O", "C", "E", "R", "Y", " ", "1", "0", " ", "1",
      "5", "0", ".", "0", "0", "\n", "D", "E", "L", "I", " ", "5", " ",
      "5", "0", ".", "0", "0">>
\* 'Merchandise Sales 123.45'
Page_Subtotal ==
    <<"M", "e", "r", "c", "h", "a", "n", "d", "i", "s", "e", " ", "S",
      "a", "l", "e", "s", " ", "1", "2", "3", ".", "4", "5">>
\* 'Tax A 10.00'
Page_TaxA ==
    <<"T", "a", "x", " ", "A", " ", "1", "0", ".", "0", "0">>
\* 'Tax B 4'
Page_TaxB ==
    <<"T", "a", "x", " ", "B", " ", "4">>
\* 'Tax B 1.2.3'
Page_TaxB_Bad ==
    <<"T", "a", "x", " ", "B", " ", "1", ".", "2", ".", "3">>
\* 'Tax Total 16.00'
Page_TaxTotal ==
    <<"T", "a", "x", " ", "T", "o", "t", "a", "l", " ", "1", "6", ".",
      "0", "0">>
\* 'Total 216.00'
Page_Total ==
    <<"T", "o", "t", "a", "l", " ", "2", "1", "6", ".", "0", "0">>
\* 'Grand Total 7'
Page_GrandTotal ==
    <<"G", "r", "a", "n", "d", " ", "T", "o", "t", "a", "l", " ", "7">>
\* 'Cash: 50.00 Visa: 75.25'
Page_Pays ==
    <<"C", "a", "s", "h", ":", " ", "5", "0", ".", "0", "0", " ", "V",
      "i", "s", "a", ":", " ", "7", "5", ".", "2", "5">>
\* 'Cash: 9'
Page_Cash ==
    <<"C", "a", "s", "h", ":", " ", "9">>
\* 'Cash: .'
Page_Cash_Bad ==
    <<"C", "a", "s", "h", ":", " ", ".">>
\* 'GROCERY 10 150.00'
Page_Grocery ==
    <<"G", "R", "O", "C", "E", "R", "Y", " ", "1", "0", " ", "1", "5",
      "0", ".", "0", "0">>
\* 'DELI 5 50.00'
Page_Deli ==
    <<"D", "E", "L", "I", " ", "5", " ", "5", "0", ".", "0", "0">>
\* 'DELI 5 50.00 3.0'
Page_Deli_Pct ==
    <<"D", "E", "L", "I", " ", "5", " ", "5", "0", ".", "0", "0", " ",
      "3", ".", "0">>

PageTexts ==
    {Page_Report, Page_Subtotal, Page_TaxA, Page_TaxB,
     Page_TaxB_Bad, Page_TaxTotal, Page_Total, Page_GrandTotal,
     Page_Pays, Page_Cash, Page_Cash_Bad, Page_Grocery,
     Page_Deli, Page_Deli_Pct}

Pages == {[none |-> FALSE, text |-> t] : t \in PageTexts}
             \cup {[none |-> TRUE, text |-> <<>>]}

RECURSIVE SeqsUpTo(_, _)
SeqsUpTo(S, n) ==
    IF n = 0 THEN {<<>>}
    ELSE LET R == SeqsUpTo(S, n - 1)
         IN  R \cup {Append(r, x) : r \in {q \in R : Len(q) = n - 1}, x \in S}

\* p.extract_text() or ""
PageOrEmpty(pg) == IF pg.none THEN <<>> ELSE pg.text

\* app.py: "\n".join([(p.extract_text() or "") for p in pdf.pages])
RECURSIVE extract_text(_)
extract_text(pdf) ==
    IF Len(pdf) = 0 THEN <<>>
    ELSE IF Len(pdf) = 1 THEN PageOrEmpty(pdf[1])
    ELSE extract_text(SubSeq(pdf, 1, Len(pdf) - 1))
         \o <<"\n">> \o PageOrEmpty(pdf[Len(pdf)])

\* app0.py: text += page.extract_text() + "\n"
RECURSIVE extract_text0(_)
extract_text0(pdf) ==
    IF Len(pdf) = 0 THEN <<>>
    ELSE extract_text0(SubSeq(pdf, 1, Len(pdf) - 1))
         \o pdf[Len(pdf)].text \o <<"\n">>

(***************************************************************************)
(* analyze_with_ai: the request.                                           *)
(***************************************************************************)
\* sort_values("Sales", ascending=False): rows[i]'s place in the sorted
\* frame.  pandas leaves the order of rows of equal Sales open; earlier says
\* whether the earlier row of two such rows comes first.
SortRank(rows, i, earlier) ==
    1 + Cardinality({j \in 1..Len(rows) : rows[j].Sales > rows[i].Sales})
      + Cardinality({j \in 1..Len(rows) :
                        /\ rows[j].Sales = rows[i].Sales
                        /\ IF earlier THEN j < i ELSE j > i})

sort_values(rows, earlier) ==
    LET rank == [i \in 1..Len(rows) |-> SortRank(rows, i, earlier)]
    IN  [k \in 1..Len(rows) |-> rows[CHOOSE i \in 1..Len(rows) : rank[i] = k]]

\* .head(n)
head(rows, n) == SubSeq(rows, 1, Min(n, Len(rows)))

\* dept_preview without its sort_values: the first rows of the frame as
\* extracted.
dept_preview_unsorted(dept_df, earlier) ==
    IF dept_df # <<>> THEN head(dept_df, MaxDeptRows) ELSE <<>>

\* dept_preview (lines 66-72)
dept_preview(dept_df, earlier) ==
    IF dept_df # <<>> THEN head(sort_values(dept_df, earlier), MaxDeptRows)
    ELSE <<>>

\* text[:6001], a cut one character late.
raw_text_excerpt_late(text) ==
    SubSeq(text, 1, Min(MaxTextChars + 1, Len(text)))

\* text[:6000]
raw_text_excerpt(text) == SubSeq(text, 1, Min(MaxTextChars, Len(text)))

\* The user payload (lines 78-96), without its fixed instructions.
user_payload(text, metrics, earlier) ==
    [parsed_numbers |->
        [subtotal |-> metrics.subtotal, tax_a |-> metrics.tax_a,
         tax_b |-> metrics.tax_b, tax_c |-> metrics.tax_c,
         tax_total |-> metrics.tax_total,
         grand_total |-> metrics.grand_total,
         payments |-> metrics.payments,
         departments_top20 |-> dept_preview(metrics.dept_df, earlier)],
     raw_text_excerpt |-> raw_text_excerpt(text)]

NoRequest ==
    [parsed_numbers |->
        [subtotal |-> 0, tax_a |-> 0, tax_b |-> 0, tax_c |-> 0,
         tax_total |-> 0, grand_total |-> 0,
         payments |-> [k \in MethodSet |-> 0], departments_top20 |-> <<>>],
     raw_text_excerpt |-> <<>>]

(***************************************************************************)
(* The collaborator's response content, and json.loads of it.              *)
(*   kind "invalid": not JSON;  "other": JSON, but not an object (a list,  *)
(*   a string, a number, null);  "object": a JSON object, of which the     *)
(*   script reads the keys error, summary and issues.                      *)
(***************************************************************************)
Severities == {"INFO", "WARNING", "CRITICAL"}
\* A severity outside the three levels, and the mark of an entry without
\* the key.
SeverityKeys == Severities \cup {"HIGH", "absent"}

Issues == SeqsUpTo([severity : SeverityKeys, message : {"x"}], MaxIssues)

Json(kind, error, has_summary, issues) ==
    [kind |-> kind, error |-> error, has_summary |-> has_summary,
     issues |-> issues]

\* error is the value of the key "error", "" when the object has no such key.
Contents ==
    {Json("invalid", "", FALSE, <<>>),
     Json("other", "", FALSE, <<>>),
     Json("object", "model error", FALSE, <<>>),
     Json("object", "", FALSE, <<>>)}
    \cup {Json("object", "", TRUE, is) : is \in Issues}

NoResult == Json("none", "", FALSE, <<>>)

\* The value analyze_with_ai returns without a client (line 63).
NoKeyError == Json("object", "No OPENAI_API_KEY set.", FALSE, <<>>)

\* json.loads(content): a JSONDecodeError unless the content is JSON.
json_loads(content) ==
    IF content.kind = "invalid" THEN [raised |-> TRUE, value |-> NoResult]
    ELSE [raised |-> FALSE, value |-> content]

(***************************************************************************)
(* Larger uploads: department tables of up to ManyRows lines, and reports  *)
(* around MaxTextChars characters long.                                    *)
(***************************************************************************)
DigitChar == <<"0", "1", "2", "3", "4", "5", "6", "7", "8", "9">>

RECURSIVE DigitsOf(_)
DigitsOf(n) ==
    IF n < 10 THEN <<DigitChar[n + 1]>>
    ELSE DigitsOf(n \div 10) \o <<DigitChar[(n % 10) + 1]>>

\* The line "D <i> <sales>.50 9" of a department table.
TableLine(i, sales) ==
    <<"D", " ">> \o DigitsOf(i) \o <<" ">> \o DigitsOf(sales)
        \o <<".", "5", "0", " ", "9">>

\* n lines whose sales are (a * i) % mod, i = 1..n.
RECURSIVE TableText(_, _, _)
TableText(n, a, mod) ==
    IF n = 0 THEN <<>>
    ELSE IF n = 1 THEN TableLine(1, a % mod)
    ELSE TableText(n - 1, a, mod) \o <<"\n">> \o TableLine(n, (a * n) % mod)

TableShapes == {<<1, 53>>, <<7, 53>>, <<3, 5>>, <<0, 5>>}

TableUploads ==
    {<<[none |-> FALSE, text |-> TableText(n, sh[1], sh[2])]>> :
        n \in ((MaxDeptRows - 1)..MaxRows) \cup {ManyRows},
        sh \in TableShapes}

\* Page_Report and a line break, filled up to n characters.
LongText(n) ==
    LET top  == Page_Report \o <<"\n">>
        fill == <<"a", "b", "c">>
    IN  [i \in 1..n |-> IF i <= Len(top) THEN top[i] ELSE fill[(i % 3) + 1]]

LongUploads ==
    {<<[none |-> FALSE, text |-> LongText(n)]>> :
        n \in {MaxTextChars - 1, MaxTextChars, MaxTextChars + 1, MaxTextLen}}

(***************************************************************************)
(* The state of one run of the script.                                     *)
(***************************************************************************)
VARIABLES
    script,         \* "app" (app.py) or "app0" (app0.py)
    uploaded_file,  \* the PDF's pages; <<>>: nothing uploaded
    client,         \* "OpenAI", or "None" without an API key
    pc,             \* where the run is
    text,           \* the extracted text
    m,              \* the metrics parse_basic_metrics returned
    exc,            \* the exception that ended the run, "none" otherwise
    shown,          \* what the page shows
    request,        \* the user payload of the last call of the collaborator
    calls,          \* calls of the collaborator
    content,        \* the content of the collaborator's last response
    result          \* what analyze_with_ai returned

vars == <<script, uploaded_file, client, pc, text, m, exc, shown, request,
          calls, content, result>>

NothingShown ==
    [info |-> FALSE, kpi |-> FALSE, sales |-> 0, tax |-> 0, pay_sum |-> 0,
     grand |-> 0, pay_df |-> [k \in MethodSet |-> 0], dept |-> <<>>,
     errors |-> <<>>, summary |-> "", findings |-> <<>>, success |-> FALSE]

Init ==
    /\ script \in {"app", "app0"}
    /\ uploaded_file \in
          IF script = "app"
          THEN SeqsUpTo(Pages, MaxPages) \cup TableUploads \cup LongUploads
          ELSE SeqsUpTo(Pages, MaxPages)
    /\ client \in IF script = "app" THEN {"OpenAI", "None"} ELSE {"None"}
    /\ pc = "start"
    /\ text = <<>>
    /\ m = NoMetrics
    /\ exc = "none"
    /\ shown = NothingShown
    /\ request = NoRequest
    /\ calls = 0
    /\ content = NoResult
    /\ result = NoResult

Crash(e) ==
    /\ pc' = "crashed"
    /\ exc' = e

RECURSIVE Sum(_, _)
Sum(f, S) ==
    IF S = {} THEN 0
    ELSE LET x == CHOOSE y \in S : TRUE IN f[x] + Sum(f, S \ {x})

\* Lines 176-177 (app.py): without an upload the page only asks for one.
NoUpload ==
    /\ pc = "start"
    /\ uploaded_file = <<>>
    /\ shown' = [shown EXCEPT !.info = (script = "app")]
    /\ pc' = "done"
    /\ UNCHANGED <<script, uploaded_file, client, text, m, exc, request,
                   calls, content, result>>

\* Line 114.
ExtractText ==
    /\ script = "app"
    /\ pc = "start"
    /\ uploaded_file # <<>>
    /\ text' = extract_text(uploaded_file)
    /\ pc' = "extracted"
    /\ UNCHANGED <<script, uploaded_file, client, m, exc, shown, request,
                   calls, content, result>>

\* Line 115: a ValueError of parse_basic_metrics ends the run.
ParseBasicMetrics ==
    /\ script = "app"
    /\ pc = "extracted"
    /\ LET r == parse_basic_metrics(text)
       IN  IF r.raised
           THEN Crash("ValueError") /\ UNCHANGED m
           ELSE m' = r.m /\ pc' = "parsed" /\ UNCHANGED exc
    /\ UNCHANGED <<script, uploaded_file, client, text, shown, request,
                   calls, content, result>>

\* Lines 117-136: the KPI row, the payments pie, the department chart and
\* frame.
ShowMetrics ==
    /\ script = "app"
    /\ pc = "parsed"
    /\ \E earlier \in BOOLEAN :
          shown' = [shown EXCEPT
                      !.kpi = TRUE,
                      !.sales = m.subtotal,
                      !.tax = m.tax_total,
                      !.pay_sum = Sum(m.payments, MethodSet),
                      !.grand = m.grand_total,
                      !.pay_df = m.payments,
                      !.dept = sort_values(m.dept_df, earlier)]
    /\ pc' = "shown"
    /\ UNCHANGED <<script, uploaded_file, client, text, m, exc, request,
                   calls, content, result>>

\* Lines 140-141, 174-175: neither the button nor the auto-run box asks for
\* the analysis.
SkipAnalysis ==
    /\ script = "app"
    /\ pc = "shown"
    /\ pc' = "done"
    /\ UNCHANGED <<script, uploaded_file, client, text, m, exc, shown,
                   request, calls, content, result>>

\* analyze_with_ai without the check of lines 62-63: the request is built
\* and sent although there is no client.
AnalyzeNoClient_unchecked ==
    /\ script = "app"
    /\ pc = "shown"
    /\ client = "None"
    /\ \E earlier \in BOOLEAN : request' = user_payload(text, m, earlier)
    /\ calls' = calls + 1
    /\ pc' = "waiting"
    /\ UNCHANGED <<script, uploaded_file, client, text, m, exc, shown,
                   content, result>>

\* analyze_with_ai, lines 62-63: without a client, the error value.
AnalyzeNoClient ==
    /\ script = "app"
    /\ pc = "shown"
    /\ client = "None"
    /\ result' = NoKeyError
    /\ pc' = "returned"
    /\ UNCHANGED <<script, uploaded_file, client, text, m, exc, shown,
                   request, calls, content>>

\* analyze_with_ai, lines 65-107: the request is built and sent.
AnalyzeCall ==
    /\ script = "app"
    /\ pc = "shown"
    /\ client # "None"
    /\ \E earlier \in BOOLEAN : request' = user_payload(text, m, earlier)
    /\ calls' = calls + 1
    /\ pc' = "waiting"
    /\ UNCHANGED <<script, uploaded_file, client, text, m, exc, shown,
                   content, result>>

\* The call raises: the exception ends the run.
UpstreamFailure ==
    /\ pc = "waiting"
    /\ Crash("APIError")
    /\ UNCHANGED <<script, uploaded_file, client, text, m, shown, request,
                   calls, content, result>>

\* analyze_with_ai, lines 108-111: the response's content is parsed.
Reply ==
    /\ pc = "waiting"
    /\ \E c \in Contents :
          /\ content' = c
          /\ LET r == json_loads(c)
             IN  IF r.raised
                 THEN Crash("JSONDecodeError") /\ UNCHANGED result
                 ELSE result' = r.value /\ pc' = "returned" /\ UNCHANGED exc
    /\ UNCHANGED <<script, uploaded_file, client, text, m, shown, request,
                   calls>>

\* Lines 144-157: the error, or the summary and the findings.  result.get
\* of a result that is no dict is an AttributeError.
ShowResult ==
    /\ pc = "returned"
    /\ IF result.kind = "object" /\ result.error # ""
       THEN /\ shown' = [shown EXCEPT !.errors = Append(@, result.error)]
            /\ pc' = "done"
            /\ UNCHANGED exc
       ELSE IF result.kind # "object"
       THEN Crash("AttributeError") /\ UNCHANGED shown
       ELSE /\ shown' = [shown EXCEPT
                           !.summary = IF result.has_summary THEN "summary"
                                       ELSE "-",
                           !.findings = result.issues,
                           !.success = (result.issues = <<>>)]
            /\ pc' = "done"
            /\ UNCHANGED exc
    /\ UNCHANGED <<script, uploaded_file, client, text, m, request, calls,
                   content, result>>

\* app0.py, lines 14-17: None + "\n" is a TypeError.
ExtractText0 ==
    /\ script = "app0"
    /\ pc = "start"
    /\ uploaded_file # <<>>
    /\ IF \E n \in 1..Len(uploaded_file) : uploaded_file[n].none
       THEN Crash("TypeError") /\ UNCHANGED text
       ELSE text' = extract_text0(uploaded_file) /\ pc' = "extracted"
            /\ UNCHANGED exc
    /\ UNCHANGED <<script, uploaded_file, client, m, shown, request, calls,
                   content, result>>

\* app0.py, lines 20-30.
Scalars0 ==
    /\ script = "app0"
    /\ pc = "extracted"
    /\ LET r == scalars0(text)
       IN  IF r.raised
           THEN Crash("ValueError") /\ UNCHANGED <<m, shown>>
           ELSE /\ m' = r.m
                /\ shown' = [shown EXCEPT !.kpi = TRUE,
                                          !.sales = r.m.subtotal,
                                          !.tax = r.m.tax_a,
                                          !.grand = r.m.grand_total]
                /\ pc' = "kpi0"
                /\ UNCHANGED exc
    /\ UNCHANGED <<script, uploaded_file, client, text, request, calls,
                   content, result>>

\* app0.py, lines 33-55.
Tables0 ==
    /\ script = "app0"
    /\ pc = "kpi0"
    /\ LET r == tables0(text)
       IN  IF r.raised
           THEN Crash("ValueError") /\ UNCHANGED <<m, shown>>
           ELSE /\ m' = [m EXCEPT !.dept_df = r.m.dept_df]
                /\ shown' = [shown EXCEPT !.dept = r.m.dept_df]
                /\ pc' = "done"
                /\ UNCHANGED exc
    /\ UNCHANGED <<script, uploaded_file, client, text, request, calls,
                   content, result>>

Next ==
    \/ NoUpload
    \/ ExtractText
    \/ ParseBasicMetrics
    \/ ShowMetrics
    \/ SkipAnalysis
    \/ AnalyzeNoClient
    \/ AnalyzeCall
    \/ UpstreamFailure
    \/ Reply
    \/ ShowResult
    \/ ExtractText0
    \/ Scalars0
    \/ Tables0

Spec == Init /\ [][Next]_vars


(***************************************************************************)
(* What the report's labels say, read off the text directly: the places    *)
(* where a label is followed by white space and an amount, and the amount  *)
(* there.  The claims below compare the program's results with these.      *)
(***************************************************************************)
\* The script has parsed the text of an upload (or has failed doing so).
Parsed ==
    /\ script = "app"
    /\ uploaded_file # <<>>
    /\ pc \notin {"start", "extracted"}

\* The token of digits and dots that starts at q, as an amount (0 when it
\* is no decimal).
AmountAt(t, q) == float(SubSeq(t, q, q + Run(t, q, NumClass) - 1)).val

\* At i stands "<label> <whitespace> <number>".
LabelAt(label, t, i) ==
    LET j == i + Len(label)
    IN  /\ Lit(t, i, label)
        /\ Run(t, j, Space) >= 1
        /\ Run(t, j + Run(t, j, Space), NumClass) >= 1

LabelAmount(label, t, i) ==
    LET j == i + Len(label) IN AmountAt(t, j + Run(t, j, Space))

\* The amount of the first "<label> <whitespace> <number>", 0 without one.
FirstAmount(label, t) ==
    LET S == {i \in 1..Len(t) : LabelAt(label, t, i)}
    IN  IF S = {} THEN 0
        ELSE LabelAmount(label, t, CHOOSE i \in S : \A j \in S : i <= j)

\* The label that starts at i is the second word of "<word> <label>".
Follows(word, t, i) ==
    /\ i - Len(word) - 1 >= 1
    /\ Lit(t, i - Len(word) - 1, word \o <<" ">>)

\* At i stands a standalone "Total <number>": a word of its own that is
\* not the Total of "Tax Total" or "Grand Total".
StandaloneTotalAt(t, i) ==
    /\ LabelAt(Chars_Total, t, i)
    /\ WordBoundary(t, i)
    /\ ~Follows(Chars_Tax, t, i)
    /\ ~Follows(Chars_Grand, t, i)

StandaloneTotal(t) ==
    LET S == {i \in 1..Len(t) : StandaloneTotalAt(t, i)}
    IN  IF S = {} THEN 0
        ELSE LabelAmount(Chars_Total, t, CHOOSE i \in S : \A j \in S : i <= j)

\* At i stands "<Method>: <amount>" for the method k, as a word of its own.
MethodAt(k, t, i) ==
    LET j == i + Len(MethodChars(k)) + 1
    IN  /\ WordBoundary(t, i)
        /\ Lit(t, i, MethodChars(k) \o <<":">>)
        /\ Run(t, j + Run(t, j, Space), NumClass) >= 1

\* The amount of the last "<Method>: <amount>" of the method k, 0 without
\* one.
LastAmount(k, t) ==
    LET S == {i \in 1..Len(t) : MethodAt(k, t, i)}
        i == CHOOSE x \in S : \A y \in S : y <= x
        j == i + Len(MethodChars(k)) + 1
    IN  IF S = {} THEN 0 ELSE AmountAt(t, j + Run(t, j, Space))

(***************************************************************************)
(* C1.  grand_total is the amount that follows the first standalone label  *)
(* "Total", never the amount of a "Tax Total" or "Grand Total" line, and   *)
(* 0 when the text has no standalone "Total"; in app.py once the text is   *)
(* parsed, in app0.py once its KPI row is computed.                        *)
(***************************************************************************)
C1_GrandTotalStandalone ==
    (\/ script = "app" /\ pc = "parsed"
     \/ script = "app0" /\ pc = "kpi0")
        => m.grand_total = StandaloneTotal(text)

(***************************************************************************)
(* C2.  Parsing never raises, and each scalar field other than grand_total *)
(* is the amount of the first "<label> <whitespace> <number>" of its       *)
(* label, 0 when the text has none.                                        *)
(***************************************************************************)
C2_FirstMatchOrDefault ==
    Parsed =>
        /\ exc # "ValueError"
        /\ m.subtotal = FirstAmount(Chars_Merchandise_Sales, text)
        /\ m.tax_a = FirstAmount(Chars_Tax_A, text)
        /\ m.tax_b = FirstAmount(Chars_Tax_B, text)
        /\ m.tax_c = FirstAmount(Chars_Tax_C, text)
        /\ m.tax_total = FirstAmount(Chars_Tax_Total, text)

(***************************************************************************)
(* C3.  Parsing never raises, and payments has exactly the six methods as  *)
(* keys, each with the amount of the last "<Method>: <amount>" of that     *)
(* method in the text, 0 when the text has none.                           *)
(***************************************************************************)
C3_PaymentsLastOccurrence ==
    Parsed =>
        /\ exc # "ValueError"
        /\ DOMAIN m.payments = MethodSet
        /\ \A k \in MethodSet : m.payments[k] = LastAmount(k, text)


(***************************************************************************)
(* The department lines of a text: a line "<NAME> <quantity> <sales>",     *)
(* with or without further columns, and the row it stands for.             *)
(***************************************************************************)
LineStart(t, i) == i = 1 \/ (i > 1 /\ i <= Len(t) /\ t[i - 1] = "\n")

\* Where the quantity and the sales of the line at i start.
QtyStart(t, i) == i + Run(t, i, Upper) + 1
SalesStart(t, i) == QtyStart(t, i) + Run(t, QtyStart(t, i), Digit) + 1
SalesEnd(t, i) == SalesStart(t, i) + Run(t, SalesStart(t, i), NumClass)

DeptLineAt(t, i) ==
    /\ LineStart(t, i)
    /\ Run(t, i, Upper) >= 1
    /\ Lit(t, QtyStart(t, i) - 1, <<" ">>)
    /\ Run(t, QtyStart(t, i), Digit) >= 1
    /\ Lit(t, SalesStart(t, i) - 1, <<" ">>)
    /\ Run(t, SalesStart(t, i), NumClass) >= 1
    /\ SalesEnd(t, i) > Len(t) \/ t[SalesEnd(t, i)] \in {" ", "\n"}

\* The line at i has the three columns only.
ThreeColumns(t, i) == SalesEnd(t, i) > Len(t) \/ t[SalesEnd(t, i)] = "\n"

DeptRowAt(t, i) ==
    [Department |-> SubSeq(t, i, QtyStart(t, i) - 2),
     Qty        |-> IntVal(SubSeq(t, QtyStart(t, i), SalesStart(t, i) - 2)),
     Sales      |-> AmountAt(t, SalesStart(t, i))]

DeptLines(t) == {i \in 1..Len(t) : DeptLineAt(t, i)}

\* The rows of the department lines, in text order.
DeptRows(t) ==
    LET S == DeptLines(t)
    IN  [k \in 1..Cardinality(S) |->
            DeptRowAt(t, CHOOSE i \in S :
                            Cardinality({j \in S : j <= i}) = k)]

\* The text ends with its department section: from the first department
\* line on, every line is a department line of three columns.
DeptSection(t) ==
    LET S == DeptLines(t)
        first == CHOOSE i \in S : \A j \in S : i <= j
    IN  /\ S # {}
        /\ \A i \in first..Len(t) :
              LineStart(t, i) => DeptLineAt(t, i) /\ ThreeColumns(t, i)

(***************************************************************************)
(* C4.  Of a text that ends with a department section of lines             *)
(* "<UPPERCASE NAME> <quantity> <sales>", the extracted department rows    *)
(* are one row per line, in text order, with the line's name (nothing      *)
(* before or after it), quantity and sales; in app.py once the text is     *)
(* parsed, in app0.py once its department frame is built.                  *)
(***************************************************************************)
C4_DepartmentRows ==
    (/\ \/ script = "app" /\ pc = "parsed"
        \/ script = "app0" /\ pc = "done" /\ uploaded_file # <<>>
     /\ DeptSection(text))
        => m.dept_df = DeptRows(text)

(***************************************************************************)
(* C5.  A token that is no decimal does not end the run: parsing raises no *)
(* ValueError, no exception ends the run before the metrics are shown, and *)
(* every scalar field, payment and the department frame whose own tokens   *)
(* are decimals has the value of its own pattern.                          *)
(***************************************************************************)
C5_FieldFailureDoesNotAbort ==
    Parsed =>
        /\ exc # "ValueError"
        /\ pc = "crashed" => shown.kpi
        /\ LET own(pat, v) == grab(pat, text).raised \/ v = grab(pat, text).val
               pairs == pay_findall("app", text, 1)
               rows == dept_findall(dept_pattern, text, 1)
           IN  /\ own(pat_subtotal, m.subtotal)
               /\ own(pat_tax_a, m.tax_a)
               /\ own(pat_tax_b, m.tax_b)
               /\ own(pat_tax_c, m.tax_c)
               /\ own(pat_tax_total, m.tax_total)
               /\ own(pat_grand, m.grand_total)
               /\ \A k \in MethodSet :
                     \/ pays_entry(pairs, k).raised
                     \/ m.payments[k] = pays_entry(pairs, k).val
               /\ dept_astype_raises(rows) \/ m.dept_df = dept_astype(rows)


(***************************************************************************)
(* C6.  Without a client the analysis makes no call of the collaborator    *)
(* and raises nothing: it returns the error value, which the page reports  *)
(* as its one error message, with no summary and no findings, and the      *)
(* metrics on the page are those of the parsed record, as they are shown   *)
(* with a client.                                                          *)
(***************************************************************************)
\* The page shows the metrics of the record m.
MetricsShown ==
    /\ shown.kpi
    /\ shown.sales = m.subtotal
    /\ shown.tax = m.tax_total
    /\ shown.pay_sum = Sum(m.payments, MethodSet)
    /\ shown.grand = m.grand_total
    /\ shown.pay_df = m.payments
    /\ \E earlier \in BOOLEAN : shown.dept = sort_values(m.dept_df, earlier)

C6_NoCredentialSkipped ==
    /\ (script = "app" /\ pc \in {"shown", "waiting", "returned", "done"}
            /\ uploaded_file # <<>>)
          => MetricsShown
    /\ client = "None" =>
          /\ calls = 0
          /\ request = NoRequest
          /\ exc \notin {"APIError", "JSONDecodeError", "AttributeError"}
          /\ pc # "waiting"
          /\ pc = "returned" =>
                /\ result = NoKeyError
                /\ shown.errors = <<>>
          /\ (pc = "done" /\ result # NoResult) =>
                /\ result = NoKeyError
                /\ shown.errors = <<"No OPENAI_API_KEY set.">>
                /\ shown.summary = ""
                /\ shown.findings = <<>>
                /\ ~shown.success

\* The analysis has run without a client, under metrics that are not all 0.
C6_Witness ==
    /\ client = "None"
    /\ pc = "done"
    /\ result = NoKeyError
    /\ shown.errors = <<"No OPENAI_API_KEY set.">>
    /\ shown.kpi
    /\ shown.grand > 0
    /\ shown.pay_sum > 0

(***************************************************************************)
(* C7.  A response content that is no JSON, or no JSON object, ends in one *)
(* reported error message: no exception ends the run, and neither summary  *)
(* nor findings are shown.                                                 *)
(***************************************************************************)
C7_InvalidPayloadReported ==
    content.kind \in {"invalid", "other"} =>
        /\ exc = "none"
        /\ pc # "crashed"
        /\ pc = "done" =>
              /\ Len(shown.errors) = 1
              /\ shown.summary = ""
              /\ shown.findings = <<>>

(***************************************************************************)
(* C8.  The raw_text_excerpt of a request is a prefix of the text of at    *)
(* most 6000 characters: exactly 6000 of a longer text, the whole of a     *)
(* text that is not longer.                                                *)
(***************************************************************************)
C8_ExcerptBounded ==
    calls > 0 =>
        LET e == request.raw_text_excerpt
        IN  /\ Len(e) <= MaxTextChars
            /\ Len(e) <= Len(text)
            /\ \A i \in 1..Len(e) : e[i] = text[i]
            /\ Len(text) > MaxTextChars => Len(e) = MaxTextChars
            /\ Len(text) <= MaxTextChars => e = text

\* A request is sent for a text of more than 6000 characters.
C8_Witness ==
    /\ calls > 0
    /\ Len(text) > MaxTextChars
    /\ Len(request.raw_text_excerpt) = MaxTextChars

(***************************************************************************)
(* C9.  The departments_top20 of a request has min(20, number of rows)     *)
(* rows of the department frame, in descending order of sales, and no row  *)
(* that is left out has greater sales than a row that is included.         *)
(***************************************************************************)
\* How often the row r occurs in rows.
Count(rows, r) == Cardinality({i \in 1..Len(rows) : rows[i] = r})

C9_TopRowsBySales ==
    calls > 0 =>
        LET rows == m.dept_df
            top == request.parsed_numbers.departments_top20
            in == {top[i] : i \in 1..Len(top)}
            out == {rows[i] : i \in {j \in 1..Len(rows) :
                                  Count(rows, rows[j]) > Count(top, rows[j])}}
        IN  /\ Len(top) = Min(20, Len(rows))
            /\ \A i \in 1..Len(top) - 1 : top[i].Sales >= top[i + 1].Sales
            /\ \A r \in in : Count(top, r) <= Count(rows, r)
            /\ \A r \in out : \A q \in in : r.Sales <= q.Sales

\* A request is sent for a frame of ManyRows rows of distinct sales, and
\* has 20 of them.
C9_Witness ==
    /\ calls > 0
    /\ Len(m.dept_df) = ManyRows
    /\ \A i, j \in 1..Len(m.dept_df) :
          i # j => m.dept_df[i].Sales # m.dept_df[j].Sales
    /\ Len(request.parsed_numbers.departments_top20) = 20

(***************************************************************************)
(* C10.  Of a response that is a JSON object without error, every entry of *)
(* issues is shown as a finding, with its severity when that is INFO,      *)
(* WARNING or CRITICAL and with INFO otherwise: every finding shown has    *)
(* one of the three severities.                                            *)
(***************************************************************************)
C10_SeverityNormalized ==
    (pc = "done" /\ content.kind = "object" /\ content.error = "") =>
        /\ Len(shown.findings) = Len(content.issues)
        /\ \A i \in 1..Len(shown.findings) :
              /\ shown.findings[i].message = content.issues[i].message
              /\ shown.findings[i].severity \in Severities
              /\ shown.findings[i].severity =
                    IF content.issues[i].severity \in Severities
                    THEN content.issues[i].severity
                    ELSE "INFO"

=============================================================================
